---- MODULE Spec2Model ----
(***************************************************************************)
(* Order lifecycle of the storefront bot (src/app.py): order creation,     *)
(* invoice issuance, provider notifications, "I Paid" polling, cancel and  *)
(* the simulated payment page, as they act on the orders table.            *)
(*                                                                         *)
(* Every request runs on its own thread (Flask's threaded server, and the  *)
(* thread started by webhook() for each chat update), so a request is a    *)
(* sequence of steps, one per database round trip, and steps of different  *)
(* requests interleave.                                                    *)
(*                                                                         *)
(* Representation.  An order id "ORD<ms>" is the integer <ms>.  A JSON     *)
(* object is a function from keys to values, Python's None is the value    *)
(* None, a missing key is a key outside the DOMAIN.  Formatted strings     *)
(* are tuples of their parts.  Amounts are in hundredths of a unit.        *)
(***************************************************************************)
EXTENDS Integers, Sequences, FiniteSets, TLC

VARIABLES
    apiKey,     \* NOWPAYMENTS_API_KEY is set
    ipnSecret,  \* NOWPAYMENTS_IPN_SECRET is set
    now,        \* time.time() in milliseconds
    nreq,       \* requests accepted so far
    orders,     \* the orders table: order id -> row
    thr,        \* request threads: program position and locals
    delivered,  \* order id -> send_document calls made by mark_order_paid_db
    lost,       \* order id -> how many of these calls did not reach the buyer
    last        \* the step just taken: thread, request, response

vars == <<apiKey, ipnSecret, now, nreq, orders, thr, delivered, lost, last>>

---------------------------------------------------------------------------
(* Bounds of the model *)

MaxRequests == 2
MaxOrders == 2
MaxTicks == 1
NumThreads == 2

(* Program constants *)

MsPerSec == 1000
\* the clock at startup: one millisecond before a second boundary
StartMs == 6 * MsPerSec - 1
NoTime == -1

Threads == 1..NumThreads
Buyers == {41, 42}
\* the instant at which an earlier run of the program created an order
EarlierMs == StartMs - MsPerSec
\* an order id that names no order
UnknownOrder == EarlierMs - 1

None == [null |-> TRUE]
EmptyDict == <<>>

\* PRICES (hundredths) and PACKS, two of the six catalog entries
PRICES == [face_pack |-> 1000, video1 |-> 500]
\* a slip: the catalog test of the buy branch lets every product id through
PACKS_Any == {"face_pack", "video1", "no_such_pack"}

PACKS == {"face_pack", "video1"}

PackIds == PACKS \cup {"no_such_pack"}

\* str(status).lower(), on the status strings of the model
Lower(s) ==
    CASE s = "Paid" -> "paid"
      [] OTHER -> s

\* a slip: one of the paid statuses forgotten
PaidStatuses_NoConfirmed == {"finished", "paid", "success"}

PaidStatuses == {"finished", "paid", "success", "confirmed"}

Idle == [pc |-> "idle"]
NoStep == [t |-> 0, req |-> [op |-> "init"], reply |-> "-"]

\* the thread a new request runs on: threads are interchangeable
FreeThread(t) ==
    /\ thr[t] = Idle
    /\ \A u \in Threads : u < t => thr[u] # Idle
    /\ nreq < MaxRequests

Step(t, req, reply) == [t |-> t, req |-> req, reply |-> reply]

---------------------------------------------------------------------------
(* The ORM session *)

\* session.query(Order).filter_by(order_id=...).first()
Row(oid) == IF oid \in DOMAIN orders THEN orders[oid] ELSE None

\* session.commit() of a row loaded as `loaded` and now holding `new`: the
\* UPDATE sets the columns whose value differs from the loaded one
Flush(oid, loaded, new) ==
    [orders EXCEPT ![oid] =
        [c \in DOMAIN @ |-> IF new[c] = loaded[c] THEN @[c] ELSE new[c]]]

---------------------------------------------------------------------------
(* create_order_db, reached from the "buy:" callback *)

generate_order_id(ms) == ms

\* the row create_order_db inserts at instant ms
NewOrder(user_id, pack_id, ms) ==
    [order_id |-> generate_order_id(ms), user_id |-> user_id,
     product_id |-> pack_id,
     \* float(PRICES.get(pack_id, 1.0))
     price |-> IF pack_id \in DOMAIN PRICES THEN PRICES[pack_id] ELSE 100,
     currency |-> "USDT",
     status |-> "pending", invoice |-> None, created_at |-> ms \div MsPerSec,
     paid_at |-> NoTime, tx_info |-> None]

Buy(t, b, pid) ==
    LET req == [op |-> "buy", by |-> b, pid |-> pid] IN
    /\ FreeThread(t)
    /\ nreq' = nreq + 1
    /\ IF pid \notin PACKS
       THEN /\ last' = Step(t, req, "Product not found.")
            /\ UNCHANGED <<orders, delivered, lost>>
       ELSE IF generate_order_id(now) \in DOMAIN orders
       THEN \* primary key violation: rollback, caught in handle_update
            /\ last' = Step(t, req, "exception")
            /\ UNCHANGED <<orders, delivered, lost>>
       ELSE /\ Cardinality(DOMAIN orders) < MaxOrders
            /\ orders' = orders @@ (generate_order_id(now) :> NewOrder(b, pid, now))
            /\ delivered' = delivered @@ (generate_order_id(now) :> 0)
            /\ lost' = lost @@ (generate_order_id(now) :> 0)
            /\ last' = Step(t, req, "Order created")
    /\ UNCHANGED <<apiKey, ipnSecret, now, thr>>

---------------------------------------------------------------------------
(* "cancel:<order_id>" callback *)

\* a slip: the owner test left out
IsOwner_AnyOrder(o, chat_id) == o # None

\* if o and o["user_id"] == chat_id
IsOwner(o, chat_id) == o # None /\ o.user_id = chat_id

\* a slip: every order not yet cancelled passes
Cancellable_NotCancelled(dbo) == dbo # None /\ dbo.status # "cancelled"

\* a slip: an order that holds an invoice can no longer be cancelled
Cancellable_NoInvoice(dbo) ==
    dbo # None /\ dbo.status = "pending" /\ dbo.invoice = None

\* if dbo and dbo.status == "pending"
Cancellable(dbo) == dbo # None /\ dbo.status = "pending"

\* o = get_order_db(oid); if o and o["user_id"] == chat_id
CancelGet(t, b, oid) ==
    LET req == [op |-> "cancel", by |-> b, oid |-> oid]
        o == Row(oid)
    IN
    /\ FreeThread(t)
    /\ nreq' = nreq + 1
    /\ IF IsOwner(o, b)
       THEN /\ thr' = [thr EXCEPT ![t] =
                        [pc |-> "cancel_query", req |-> req, o |-> o]]
            /\ last' = Step(t, req, "-")
       ELSE /\ last' = Step(t, req, "Returning to main menu.")
            /\ UNCHANGED thr
    /\ UNCHANGED <<apiKey, ipnSecret, now, orders, delivered, lost>>

\* dbo = session.query(Order)...first(); if dbo and dbo.status == "pending"
CancelQuery(t) ==
    LET req == thr[t].req
        dbo == Row(req.oid)
    IN
    /\ thr[t].pc = "cancel_query"
    /\ IF Cancellable(dbo)
       THEN /\ thr' = [thr EXCEPT ![t] =
                        [pc |-> "cancel_commit", req |-> req, o |-> thr[t].o,
                         loaded |-> dbo]]
            /\ last' = Step(t, req, "-")
       ELSE /\ thr' = [thr EXCEPT ![t] = Idle]
            /\ last' = Step(t, req, "Order not found or cannot cancel.")
    /\ UNCHANGED <<apiKey, ipnSecret, now, nreq, orders, delivered, lost>>

\* dbo.status = "cancelled"; session.commit(); send_message(...)
CancelCommit(t) ==
    LET req == thr[t].req
        loaded == thr[t].loaded
    IN
    /\ thr[t].pc = "cancel_commit"
    /\ orders' = Flush(req.oid, loaded, [loaded EXCEPT !.status = "cancelled"])
    /\ thr' = [thr EXCEPT ![t] = Idle]
    /\ last' = Step(t, req, "Order cancelled.")
    /\ UNCHANGED <<apiKey, ipnSecret, now, nreq, delivered, lost>>

---------------------------------------------------------------------------
(* send_document(chat_id, doc_url, caption) *)

NoCall == "-"

\* how the transport behaves during one delivery: the answer to sendDocument
\* by reference ("none": no answer, telegram_request_json returns None;
\* "raise": an exception leaves send_document), the download of the asset,
\* the multipart upload and the text message, as far as they are called
Transports ==
    { [resp |-> "ok", fetch |-> NoCall, upload |-> NoCall, text |-> NoCall],
      [resp |-> "none", fetch |-> NoCall, upload |-> NoCall, text |-> NoCall],
      [resp |-> "error", fetch |-> NoCall, upload |-> NoCall, text |-> NoCall],
      [resp |-> "raise", fetch |-> NoCall, upload |-> NoCall, text |-> NoCall],
      [resp |-> "wrong_type", fetch |-> "ok", upload |-> "ok", text |-> NoCall],
      [resp |-> "wrong_type", fetch |-> "ok", upload |-> "failed", text |-> NoCall],
      [resp |-> "wrong_type", fetch |-> "failed", upload |-> NoCall, text |-> "ok"],
      [resp |-> "wrong_type", fetch |-> "failed", upload |-> NoCall, text |-> "failed"] }

\* the transport on which the first send succeeds
Reached == [resp |-> "ok", fetch |-> NoCall, upload |-> NoCall, text |-> NoCall]

\* the delivery modes send_document goes through, in order, and whether the
\* last one handed the file (or its link) to the buyer
send_document(d) ==
    IF d.resp = "wrong_type"
    THEN IF d.fetch = "ok"
         THEN [tried |-> <<"reference", "reupload">>, ok |-> d.upload = "ok"]
         ELSE [tried |-> <<"reference", "reupload", "text">>, ok |-> d.text = "ok"]
    ELSE [tried |-> <<"reference">>, ok |-> d.resp = "ok"]

---------------------------------------------------------------------------
(* mark_order_paid_db(order_id, tx_info), entered with pc = "mark_query" *)

\* what the caller answers once mark_order_paid_db has returned
MarkReply(req) ==
    CASE req.op = "notify" -> "ok"
      [] req.op = "check_paid" -> "Order is already paid and delivered."
      [] req.op = "pay_simulate" -> "marked as paid (simulated)"

\* o = session.query(Order)...first(); if not o: return False;
\* o.status = "paid"; o.paid_at = int(time.time()); o.tx_info = tx_info
MarkQuery(t) ==
    LET req == thr[t].req
        oid == thr[t].oid
        o == Row(oid)
    IN
    /\ thr[t].pc = "mark_query"
    /\ IF o = None
       THEN /\ thr' = [thr EXCEPT ![t] = Idle]
            /\ last' = Step(t, req, MarkReply(req))
       ELSE /\ thr' = [thr EXCEPT ![t] =
                        [pc |-> "mark_commit", req |-> req, oid |-> oid,
                         loaded |-> o,
                         new |-> [o EXCEPT !.status = "paid",
                                           !.paid_at = now \div MsPerSec,
                                           !.tx_info = thr[t].tx]]]
            /\ last' = Step(t, req, "-")
    /\ UNCHANGED <<apiKey, ipnSecret, now, nreq, orders, delivered, lost>>

\* a slip: a failed delivery takes the paid transition back
AfterDelivery_RollbackOnFailure(committed, before, sent) ==
    IF sent.ok THEN committed ELSE before

\* the orders table once the delivery attempt is over: the commit came first,
\* and the inner try/except keeps a failure away from session.rollback()
AfterDelivery(committed, before, sent) == committed

\* PACKS[pid]["deliver_url"]: one asset per product
deliver_url(pid) == <<"deliver_url", pid>>

\* a slip: the file sent to the chat that asked, when the request has one
Recipient_Requester(o, req) ==
    IF "by" \in DOMAIN req THEN req.by ELSE o.user_id

\* chat_id = o.user_id
Recipient(o, req) == o.user_id

\* session.commit(); then send_document(o.user_id, product["deliver_url"]),
\* o being read again after the commit, the transport behaving as d;
\* return True
MarkCommit(t, d) ==
    LET req == thr[t].req
        oid == thr[t].oid
        sent == send_document(d)
        o == Flush(oid, thr[t].loaded, thr[t].new)[oid]
    IN
    /\ thr[t].pc = "mark_commit"
    /\ orders' = AfterDelivery(Flush(oid, thr[t].loaded, thr[t].new), orders, sent)
    /\ delivered' = [delivered EXCEPT ![oid] = @ + 1]
    /\ lost' = [lost EXCEPT ![oid] = IF sent.ok THEN @ ELSE @ + 1]
    /\ thr' = [thr EXCEPT ![t] = Idle]
    /\ last' = [t |-> t, req |-> req, reply |-> MarkReply(req),
                transport |-> d, sent |-> sent,
                chat_id |-> Recipient(o, req), doc |-> deliver_url(o.product_id)]
    /\ UNCHANGED <<apiKey, ipnSecret, now, nreq>>

---------------------------------------------------------------------------
(* update_order_invoice_db(order_id, invoice_obj), entered with             *)
(* pc = "invoice_query"; thr[t].reply is the caller's answer afterwards     *)

\* a slip: the invoice's currency written over the order's
WithInvoice_Currency(o, invoice_obj) ==
    [o EXCEPT !.invoice = invoice_obj, !.currency = "USD"]

\* a slip: the new invoice merged into the stored one, as dict.update would
WithInvoice_Merge(o, invoice_obj) ==
    [o EXCEPT !.invoice =
        IF @ = None THEN invoice_obj
        ELSE [k \in DOMAIN @ \cup DOMAIN invoice_obj |->
                IF k \in DOMAIN invoice_obj THEN invoice_obj[k] ELSE @[k]]]

\* o.invoice = invoice_obj
WithInvoice(o, invoice_obj) == [o EXCEPT !.invoice = invoice_obj]

\* o = session.query(Order)...first(); if not o: return None; o.invoice = ...
InvoiceQuery(t) ==
    LET req == thr[t].req
        oid == thr[t].oid
        o == Row(oid)
    IN
    /\ thr[t].pc = "invoice_query"
    /\ IF o = None
       THEN /\ thr' = [thr EXCEPT ![t] = Idle]
            /\ last' = Step(t, req, thr[t].reply)
       ELSE /\ thr' = [thr EXCEPT ![t] =
                        [pc |-> "invoice_commit", loaded |-> o,
                         new |-> WithInvoice(o, thr[t].invoice)] @@ thr[t]]
            /\ last' = Step(t, req, "-")
    /\ UNCHANGED <<apiKey, ipnSecret, now, nreq, orders, delivered, lost>>

\* session.commit(); the step records the invoice the row held before it
InvoiceCommit(t) ==
    /\ thr[t].pc = "invoice_commit"
    /\ orders' = Flush(thr[t].oid, thr[t].loaded, thr[t].new)
    /\ thr' = [thr EXCEPT ![t] = Idle]
    /\ last' = [t |-> t, req |-> thr[t].req, reply |-> thr[t].reply,
                over |-> orders[thr[t].oid].invoice]
    /\ UNCHANGED <<apiKey, ipnSecret, now, nreq, delivered, lost>>

---------------------------------------------------------------------------
(* create_invoice_nowpayments_db(order), from "pay_now:" and "retry:" *)

PayUrl(oid) == <<"PUBLIC_URL/pay/", oid>>

\* a slip: the placeholder without its payment link
FakeInvoice_NoPayUrl(prefix, order) ==
    [id |-> <<prefix, order.order_id>>, pay_url |-> <<>>,
     status |-> "waiting", price_amount |-> order.price,
     price_currency |-> order.currency]

FakeInvoice(prefix, order) ==
    [id |-> <<prefix, order.order_id>>, pay_url |-> PayUrl(order.order_id),
     status |-> "waiting", price_amount |-> order.price,
     price_currency |-> order.currency]

\* r.json() of a successful POST /v1/invoice: whatever the provider answers
ProviderData(order) ==
    { [id |-> <<"np-", order.order_id>>,
       invoice_url |-> <<"nowpayments.io/payment/", order.order_id>>],
      [id |-> <<"np-", order.order_id>>,
       invoice_url |-> <<"nowpayments.io/payment/", order.order_id>>,
       status |-> "paid"] }

\* what requests.post ... r.json() gives: the provider's answer, or None when
\* the call raises (no connection, timeout, error status, no JSON)
ProviderAnswers(order) == ProviderData(order) \cup {None}

\* the invoice create_invoice_nowpayments_db stores and returns
create_invoice_nowpayments_db(order, answer) ==
    IF ~apiKey THEN FakeInvoice("fake-inv-", order)
    ELSE IF answer = None THEN FakeInvoice("fallback-inv-", order)
    ELSE answer

\* order = get_order_db(oid); if not order: "Order not found."; the provider call
IssueGet(t, kind, oid) ==
    LET req == [op |-> kind, oid |-> oid]
        order == Row(oid)
    IN
    /\ FreeThread(t)
    /\ nreq' = nreq + 1
    /\ IF order = None
       THEN /\ last' = Step(t, req, "Order not found.")
            /\ UNCHANGED thr
       ELSE \E answer \in ProviderAnswers(order) :
            /\ thr' = [thr EXCEPT ![t] =
                        [pc |-> "invoice_query", req |-> req, oid |-> oid,
                         invoice |-> create_invoice_nowpayments_db(order, answer),
                         fallback |-> ~apiKey \/ answer = None,
                         reply |-> IF kind = "pay_now" THEN "Invoice created."
                                   ELSE "New invoice"]]
            /\ last' = Step(t, req, "-")
    /\ UNCHANGED <<apiKey, ipnSecret, now, orders, delivered, lost>>

---------------------------------------------------------------------------
(* nowpayments_webhook: the provider's notification *)

Secret == "NOWPAYMENTS_IPN_SECRET"

\* hmac.new(key, sorted_json(body), sha512).hexdigest(): determined by, and
\* determining, the key and the body
Hmac(key, body) == [key |-> key, body |-> body]

\* the x-nowpayments-sig header of a notification with body `data`: None for
\* a missing or empty header (both are falsy), the sender's HMAC otherwise
Signatures(data) == {None, Hmac(Secret, data), Hmac("guess", data)}

\* a slip: the comparison inverted
SignatureRejected_Inverted(sig, data) ==
    /\ ipnSecret
    /\ sig # None
    /\ Hmac(Secret, data) = sig

\* if NOWPAYMENTS_IPN_SECRET and received_sig: ... generated_sig != received_sig
SignatureRejected(sig, data) ==
    /\ ipnSecret
    /\ sig # None
    /\ Hmac(Secret, data) # sig

\* data.get("order_id") or data.get("orderId") or invoice.order_id or purchase_id
ExtractOrderId(data) ==
    CASE "order_id" \in DOMAIN data -> data.order_id
      [] "orderId" \in DOMAIN data -> data.orderId
      [] "invoice" \in DOMAIN data /\ "order_id" \in DOMAIN data.invoice
            -> data.invoice.order_id
      [] "purchase_id" \in DOMAIN data -> data.purchase_id
      [] OTHER -> 0

\* data.get("status") or data.get("payment_status") or invoice.status
ExtractStatus(data) ==
    CASE "status" \in DOMAIN data -> data.status
      [] "payment_status" \in DOMAIN data -> data.payment_status
      [] "invoice" \in DOMAIN data /\ "status" \in DOMAIN data.invoice
            -> data.invoice.status
      [] OTHER -> "None"

NoAmount == -1

\* data.get("price_amount") or data.get("pay_amount") or invoice.price_amount
PayAmount(data) ==
    CASE "price_amount" \in DOMAIN data /\ data.price_amount # 0 -> data.price_amount
      [] "pay_amount" \in DOMAIN data /\ data.pay_amount # 0 -> data.pay_amount
      [] "invoice" \in DOMAIN data /\ "price_amount" \in DOMAIN data.invoice
            -> data.invoice.price_amount
      [] OTHER -> NoAmount

\* pay_amount is not None and float(pay_amount) < float(o["price"]) * 0.99
UnderPaid(pay_amount, o) ==
    pay_amount # NoAmount /\ pay_amount * 100 < o.price * 99

\* the JSON bodies of the model's notifications
NotifyBodies ==
    LET ids == DOMAIN orders \cup {UnknownOrder} IN
    { [order_id |-> o, status |-> s] : o \in ids, s \in {"finished", "failed"} }
    \cup { [purchase_id |-> o, payment_status |-> "Paid"] : o \in DOMAIN orders }
    \cup { [status |-> "finished"] }

NotifyStart(t, sig, data) ==
    LET req == [op |-> "notify", sig |-> sig, data |-> data]
        order_id == ExtractOrderId(data)
        status == ExtractStatus(data)
    IN
    /\ FreeThread(t)
    /\ nreq' = nreq + 1
    /\ IF SignatureRejected(sig, data)
       THEN /\ last' = Step(t, req, "invalid_signature")
            /\ UNCHANGED thr
       ELSE IF order_id = 0
       THEN /\ last' = Step(t, req, "no_order_id")
            /\ UNCHANGED thr
       ELSE IF Lower(status) \in PaidStatuses
       THEN \* o = get_order_db(order_id); an under-payment is logged, no more
            /\ thr' = [thr EXCEPT ![t] =
                        [pc |-> "mark_query", req |-> req, oid |-> order_id,
                         tx |-> data,
                         warned |-> /\ Row(order_id) # None
                                    /\ UnderPaid(PayAmount(data), Row(order_id))]]
            /\ last' = Step(t, req, "-")
       ELSE /\ thr' = [thr EXCEPT ![t] =
                        [pc |-> "invoice_query", req |-> req, oid |-> order_id,
                         invoice |-> [status |-> status], reply |-> "ok"]]
            /\ last' = Step(t, req, "-")
    /\ UNCHANGED <<apiKey, ipnSecret, now, orders, delivered, lost>>

---------------------------------------------------------------------------
(* "check_paid:<order_id>" callback *)

\* a slip: an order already paid is not confirmed again
PaymentDetected_InvoiceOnly(o, invoice) ==
    "status" \in DOMAIN invoice /\ invoice.status = "paid"

\* o["status"] == "paid" or invoice.get("status") == "paid"
PaymentDetected(o, invoice) ==
    \/ o.status = "paid"
    \/ ("status" \in DOMAIN invoice /\ invoice.status = "paid")

\* o = get_order_db(oid); invoice = o.get("invoice") or {}; if paid: confirm
CheckPaidGet(t, b, oid) ==
    LET req == [op |-> "check_paid", by |-> b, oid |-> oid]
        o == Row(oid)
        invoice == IF o.invoice = None THEN EmptyDict ELSE o.invoice
    IN
    /\ FreeThread(t)
    /\ nreq' = nreq + 1
    /\ IF o = None
       THEN /\ last' = Step(t, req, "Order not found.")
            /\ UNCHANGED thr
       ELSE IF PaymentDetected(o, invoice)
       THEN /\ thr' = [thr EXCEPT ![t] =
                        [pc |-> "mark_query", req |-> req, oid |-> oid,
                         tx |-> invoice]]
            /\ last' = Step(t, req, "-")
       ELSE /\ last' = Step(t, req, "Payment not detected yet.")
            /\ UNCHANGED thr
    /\ UNCHANGED <<apiKey, ipnSecret, now, orders, delivered, lost>>

---------------------------------------------------------------------------
(* POST /pay_simulate/<order_id> *)

PaySimulateGet(t, oid) ==
    LET req == [op |-> "pay_simulate", oid |-> oid]
        o == Row(oid)
    IN
    /\ FreeThread(t)
    /\ nreq' = nreq + 1
    /\ IF o = None
       THEN /\ last' = Step(t, req, "Order not found")
            /\ UNCHANGED thr
       ELSE /\ thr' = [thr EXCEPT ![t] =
                        [pc |-> "mark_query", req |-> req, oid |-> oid,
                         tx |-> [order_id |-> oid, status |-> "finished",
                                 invoice_id |-> <<"sim-", oid>>]]]
            /\ last' = Step(t, req, "-")
    /\ UNCHANGED <<apiKey, ipnSecret, now, orders, delivered, lost>>

---------------------------------------------------------------------------
(* a callback whose data matches none of the branches of handle_update *)

UnknownActions == {"refund"}

\* handle_update falls through every "if data ..." and returns: nothing is sent
NoMessage == "no message"

OtherCallback(t, b, data) ==
    LET req == [op |-> "callback", by |-> b, data |-> data] IN
    /\ FreeThread(t)
    /\ nreq' = nreq + 1
    /\ last' = Step(t, req, NoMessage)
    /\ UNCHANGED <<apiKey, ipnSecret, now, orders, thr, delivered, lost>>

---------------------------------------------------------------------------
\* time passes: one millisecond; the start instant is just before a second
\* boundary, so int(time.time()) changes on the first tick only
Tick ==
    /\ now < StartMs + MaxTicks
    /\ now' = now + 1
    /\ last' = Step(0, [op |-> "tick"], "-")
    /\ UNCHANGED <<apiKey, ipnSecret, nreq, orders, thr, delivered, lost>>

\* the orders table at startup: empty, or holding the pending order that a
\* "buy:face_pack" of buyer 41 created in an earlier run of the program (the
\* table outlives the process)
StoredOrders ==
    { <<>>,
      generate_order_id(EarlierMs) :> NewOrder(41, "face_pack", EarlierMs) }

Init ==
    /\ apiKey \in BOOLEAN
    /\ ipnSecret \in BOOLEAN
    /\ now = StartMs
    /\ nreq = 0
    /\ orders \in StoredOrders
    /\ thr = [t \in Threads |-> Idle]
    /\ delivered = [o \in DOMAIN orders |-> 0]
    /\ lost = [o \in DOMAIN orders |-> 0]
    /\ last = NoStep

OrderIds == DOMAIN orders \cup {UnknownOrder}

Next ==
    \/ \E t \in Threads, b \in Buyers, pid \in PackIds : Buy(t, b, pid)
    \/ \E t \in Threads, b \in Buyers, oid \in OrderIds : CancelGet(t, b, oid)
    \/ \E t \in Threads : CancelQuery(t)
    \/ \E t \in Threads : CancelCommit(t)
    \/ \E t \in Threads, kind \in {"pay_now", "retry"}, oid \in OrderIds :
          IssueGet(t, kind, oid)
    \/ \E t \in Threads : InvoiceQuery(t)
    \/ \E t \in Threads : InvoiceCommit(t)
    \/ \E t \in Threads, data \in NotifyBodies :
          \E sig \in Signatures(data) : NotifyStart(t, sig, data)
    \/ \E t \in Threads, b \in Buyers, oid \in OrderIds : CheckPaidGet(t, b, oid)
    \/ \E t \in Threads, oid \in OrderIds : PaySimulateGet(t, oid)
    \/ \E t \in Threads : MarkQuery(t)
    \/ \E t \in Threads, d \in Transports : MarkCommit(t, d)
    \/ \E t \in Threads, b \in Buyers, data \in UnknownActions :
          OtherCallback(t, b, data)
    \/ Tick

Spec == Init /\ [][Next]_vars

\* The cancel requests and the simulated payments alone (with order creation):
\* every status an order takes, and every way a cancel runs against it.
NextCancel ==
    \/ \E t \in Threads, b \in Buyers, pid \in PackIds : Buy(t, b, pid)
    \/ \E t \in Threads, b \in Buyers, oid \in OrderIds : CancelGet(t, b, oid)
    \/ \E t \in Threads : CancelQuery(t)
    \/ \E t \in Threads : CancelCommit(t)
    \/ \E t \in Threads, oid \in OrderIds : PaySimulateGet(t, oid)
    \/ \E t \in Threads : MarkQuery(t)
    \/ \E t \in Threads, d \in Transports : MarkCommit(t, d)
    \/ Tick

SpecCancel == Init /\ [][NextCancel]_vars

\* The provider's notifications alone, on the orders table found at startup,
\* every delivery reaching the buyer.
NextNotify ==
    \/ \E t \in Threads, data \in NotifyBodies :
          \E sig \in Signatures(data) : NotifyStart(t, sig, data)
    \/ \E t \in Threads : MarkQuery(t)
    \/ \E t \in Threads, d \in {Reached} : MarkCommit(t, d)
    \/ \E t \in Threads : InvoiceQuery(t)
    \/ \E t \in Threads : InvoiceCommit(t)
    \/ Tick

SpecNotify == Init /\ [][NextNotify]_vars

\* notifications that report a payment of an order: each of the paid statuses
\* with the amount of the cheaper product (an under-payment of the dearer
\* one), and one with the amount of the dearer product
PaidBodies ==
    { [order_id |-> o, status |-> st, price_amount |-> PRICES.video1] :
        o \in DOMAIN orders, st \in {"finished", "paid", "success", "confirmed"} }
    \cup { [order_id |-> o, status |-> "finished", price_amount |-> PRICES.face_pack] :
              o \in DOMAIN orders }

\* Notifications of a payment, unsigned or rightly signed, with invoice
\* issuance, on the orders table found at startup, within one clock instant,
\* every delivery reaching the buyer.
NextPaid ==
    \/ \E t \in Threads, data \in PaidBodies :
          \E sig \in {None, Hmac(Secret, data)} : NotifyStart(t, sig, data)
    \/ \E t \in Threads : MarkQuery(t)
    \/ \E t \in Threads, d \in {Reached} : MarkCommit(t, d)
    \/ \E t \in Threads, oid \in OrderIds : IssueGet(t, "pay_now", oid)
    \/ \E t \in Threads : InvoiceQuery(t)
    \/ \E t \in Threads : InvoiceCommit(t)

SpecPaid == Init /\ [][NextPaid]_vars

\* the notifications that report no payment
UnpaidBodies == {data \in NotifyBodies : Lower(ExtractStatus(data)) \notin PaidStatuses}

\* Invoice issuance, the notifications that report no payment and cancel, on
\* the orders table found at startup: every way the invoice column is written.
NextInvoice ==
    \/ \E t \in Threads, kind \in {"pay_now", "retry"}, oid \in OrderIds :
          IssueGet(t, kind, oid)
    \/ \E t \in Threads : InvoiceQuery(t)
    \/ \E t \in Threads : InvoiceCommit(t)
    \/ \E t \in Threads, data \in UnpaidBodies :
          \E sig \in Signatures(data) : NotifyStart(t, sig, data)
    \/ \E t \in Threads, b \in Buyers, oid \in OrderIds : CancelGet(t, b, oid)
    \/ \E t \in Threads : CancelQuery(t)
    \/ \E t \in Threads : CancelCommit(t)

SpecInvoice == Init /\ [][NextInvoice]_vars

\* one notification of a payment and one of a failure for each order
LifecycleBodies ==
    { [order_id |-> o, status |-> st] :
        o \in DOMAIN orders, st \in {"finished", "failed"} }

\* Every operation that writes to an existing order (invoice issuance,
\* unsigned notifications, check_paid, cancel, simulated payment), on the
\* orders table found at startup, within one clock instant, every delivery
\* reaching the buyer.
NextLifecycle ==
    \/ \E t \in Threads, oid \in DOMAIN orders : IssueGet(t, "pay_now", oid)
    \/ \E t \in Threads : InvoiceQuery(t)
    \/ \E t \in Threads : InvoiceCommit(t)
    \/ \E t \in Threads, data \in LifecycleBodies : NotifyStart(t, None, data)
    \/ \E t \in Threads, b \in Buyers, oid \in DOMAIN orders : CheckPaidGet(t, b, oid)
    \/ \E t \in Threads, b \in Buyers, oid \in DOMAIN orders : CancelGet(t, b, oid)
    \/ \E t \in Threads : CancelQuery(t)
    \/ \E t \in Threads : CancelCommit(t)
    \/ \E t \in Threads, oid \in DOMAIN orders : PaySimulateGet(t, oid)
    \/ \E t \in Threads : MarkQuery(t)
    \/ \E t \in Threads, d \in {Reached} : MarkCommit(t, d)

SpecLifecycle == Init /\ [][NextLifecycle]_vars

\* Simulated payments, check_paid and cancel, on the orders table found at
\* startup, under every behaviour of the transport.
NextRedeliver ==
    \/ \E t \in Threads, oid \in OrderIds : PaySimulateGet(t, oid)
    \/ \E t \in Threads, b \in Buyers, oid \in OrderIds : CheckPaidGet(t, b, oid)
    \/ \E t \in Threads, b \in Buyers, oid \in OrderIds : CancelGet(t, b, oid)
    \/ \E t \in Threads : CancelQuery(t)
    \/ \E t \in Threads : CancelCommit(t)
    \/ \E t \in Threads : MarkQuery(t)
    \/ \E t \in Threads, d \in Transports : MarkCommit(t, d)
    \/ Tick

SpecRedeliver == Init /\ [][NextRedeliver]_vars

\* the notifications that name no existing order
StrayBodies ==
    { [order_id |-> UnknownOrder, status |-> st] : st \in {"finished", "failed"} }

\* Order creation, and every other operation aimed at an order id that names
\* no order.
NextCreate ==
    \/ \E t \in Threads, b \in Buyers, pid \in PackIds : Buy(t, b, pid)
    \/ \E t \in Threads, b \in Buyers : CancelGet(t, b, UnknownOrder)
    \/ \E t \in Threads, kind \in {"pay_now", "retry"} :
          IssueGet(t, kind, UnknownOrder)
    \/ \E t \in Threads, data \in StrayBodies : NotifyStart(t, None, data)
    \/ \E t \in Threads : MarkQuery(t)
    \/ \E t \in Threads : InvoiceQuery(t)
    \/ \E t \in Threads, b \in Buyers : CheckPaidGet(t, b, UnknownOrder)
    \/ \E t \in Threads : PaySimulateGet(t, UnknownOrder)
    \/ Tick

SpecCreate == Init /\ [][NextCreate]_vars

---------------------------------------------------------------------------
(* The claims *)

\* the step just taken belongs to a request of kind `op` on an existing order
StepOn(op) ==
    /\ last'.req.op = op
    /\ last'.req.oid \in DOMAIN orders

AllIdle == \A t \in Threads : thr[t] = Idle

\* C1: paid and cancelled are terminal: once an order's status is paid or
\* cancelled, no step of any operation changes that order's status.
C1_TerminalStatuses ==
    [][\A o \in DOMAIN orders :
          orders[o].status \in {"paid", "cancelled"}
          => orders'[o].status = orders[o].status]_vars

\* C2: confirm_paid applied to an order that is already paid is a no-op on
\* the record: the commit of mark_order_paid_db on an order that was paid when
\* it was loaded, and is paid now, leaves status, paid_at and tx_info as they
\* are.
C2_ConfirmPaidIdempotent ==
    [][\A t \in Threads :
          /\ thr[t].pc = "mark_commit"
          /\ thr'[t] = Idle
          /\ thr[t].loaded.status = "paid"
          /\ orders[thr[t].oid].status = "paid"
          => /\ orders'[thr[t].oid].status = "paid"
             /\ orders'[thr[t].oid].paid_at = orders[thr[t].oid].paid_at
             /\ orders'[thr[t].oid].tx_info = orders[thr[t].oid].tx_info]_vars

\* C3: over any sequence of provider notifications for one order, sequential
\* or concurrent, the deliverable is dispatched at most once.
C3_DeliveredAtMostOnce ==
    \A o \in DOMAIN orders : delivered[o] <= 1

\* C4: concurrent cancel and confirm_paid on one order are serializable: when
\* all requests have returned, an order whose paid transition was committed
\* and whose delivery was triggered does not have status cancelled.
C4_PaidAndDeliveredNotCancelled ==
    AllIdle =>
        \A o \in DOMAIN orders : delivered[o] > 0 => orders[o].status # "cancelled"

\* C5: with a shared secret configured, a notification that does not carry the
\* HMAC of its body as signature (no signature header at all included) causes
\* no change to any order.
C5_UnsignedNotificationChangesNothing ==
    [][/\ ipnSecret
       /\ last'.req.op = "notify"
       /\ last'.req.sig # Hmac(Secret, last'.req.data)
       => orders' = orders]_vars

\* C6: a notification whose provided signature differs from the HMAC
\* recomputed over its body with the configured secret is answered with the
\* invalid_signature error, changes no order and triggers no delivery.
C6_BadSignatureRejected ==
    [][/\ ipnSecret
       /\ last'.req.op = "notify"
       /\ last'.req.sig # None
       /\ last'.req.sig # Hmac(Secret, last'.req.data)
       => /\ last'.reply = "invalid_signature"
          /\ orders' = orders
          /\ delivered' = delivered
          /\ thr' = thr]_vars

\* C6 witness: a notification naming an existing order with a paid status and
\* a wrong signature has just been rejected.
C6_Witness ==
    /\ ipnSecret
    /\ last.req.op = "notify"
    /\ last.req.sig = Hmac("guess", last.req.data)
    /\ last.req.data \in { [order_id |-> o, status |-> "finished"] : o \in DOMAIN orders }
    /\ last.reply = "invalid_signature"

\* C7: a check_paid request by a buyer other than the order's owner is
\* answered as for an unknown order, changes no field of the order and
\* triggers no delivery.
C7_CheckPaidByStrangerRejected ==
    [][/\ StepOn("check_paid")
       /\ last'.req.by # orders[last'.req.oid].user_id
       => /\ last'.reply \in {"-", "Order not found."}
          /\ orders' = orders
          /\ delivered' = delivered]_vars

\* C8: a cancel request by a buyer other than the order's owner is rejected
\* at once and leaves the orders as they are, whatever the order's status.
C8_CancelByStrangerRejected ==
    [][/\ StepOn("cancel")
       /\ last'.req.by # orders[last'.req.oid].user_id
       => /\ last'.reply = "Returning to main menu."
          /\ orders' = orders
          /\ delivered' = delivered
          /\ thr' = thr]_vars

\* C8 witness: a stranger's cancel of a pending order has just been rejected.
C8_Witness ==
    /\ last.req.op = "cancel"
    /\ last.req.oid \in DOMAIN orders
    /\ last.req.by # orders[last.req.oid].user_id
    /\ orders[last.req.oid].status = "pending"
    /\ last.reply = "Returning to main menu."

\* C9: the owner's cancel of an order whose status is paid (as read by the
\* request's get_order_db) never writes to the orders table, and ends, at the
\* status test, by reporting that the order cannot be cancelled.
C9_CancelOfPaidRejected ==
    [][/\ StepOn("cancel")
       /\ last'.req.by = orders[last'.req.oid].user_id
       /\ IF thr[last'.t] = Idle
          THEN orders[last'.req.oid].status = "paid"
          ELSE thr[last'.t].o.status = "paid"
       => /\ orders' = orders
          /\ delivered' = delivered
          /\ thr[last'.t] = Idle => thr'[last'.t].pc = "cancel_query"
          /\ thr[last'.t] # Idle =>
                /\ thr[last'.t].pc = "cancel_query"
                /\ thr'[last'.t] = Idle
                /\ last'.reply = "Order not found or cannot cancel."]_vars

\* C9 witness: the owner's cancel of a paid and delivered order has just been
\* refused, and the order is still paid.
C9_Witness ==
    /\ last.req.op = "cancel"
    /\ last.req.oid \in DOMAIN orders
    /\ last.req.by = orders[last.req.oid].user_id
    /\ last.reply = "Order not found or cannot cancel."
    /\ orders[last.req.oid].status = "paid"
    /\ orders[last.req.oid].paid_at # NoTime
    /\ delivered[last.req.oid] = 1

\* C10: issue_invoice (pay_now or retry) on a pending or invoiced order stores
\* the invoice on the order and leaves the order with status invoiced.
C10_IssueInvoiceSetsInvoiced ==
    [][\A t \in Threads :
          /\ thr[t].pc = "invoice_commit"
          /\ thr'[t] = Idle
          /\ thr[t].req.op \in {"pay_now", "retry"}
          /\ orders[thr[t].oid].status \in {"pending", "invoiced"}
          => /\ orders'[thr[t].oid].invoice = thr[t].new.invoice
             /\ orders'[thr[t].oid].status = "invoiced"]_vars

\* C11: a cancel by the order's owner passes the owner test, passes the status
\* test whenever the order is neither paid nor cancelled at that moment,
\* whether or not an invoice is stored on it, and then commits status
\* cancelled and reports the cancellation.
C11_OwnerCancelSucceeds ==
    [][\A t \in Threads :
          /\ (/\ last'.t = t
              /\ thr[t] = Idle
              /\ StepOn("cancel")
              /\ last'.req.by = orders[last'.req.oid].user_id
              => thr'[t].pc = "cancel_query")
          /\ (/\ last'.t = t
              /\ thr[t].pc = "cancel_query"
              /\ orders[thr[t].req.oid].status \notin {"paid", "cancelled"}
              => thr'[t].pc = "cancel_commit")
          /\ (/\ last'.t = t
              /\ thr[t].pc = "cancel_commit"
              => /\ orders'[thr[t].req.oid].status = "cancelled"
                 /\ last'.reply = "Order cancelled.")]_vars

\* C11 witness: the owner's cancel of an order that holds an issued invoice
\* has just been committed.
C11_Witness ==
    /\ last.req.op = "cancel"
    /\ last.reply = "Order cancelled."
    /\ orders[last.req.oid].status = "cancelled"
    /\ orders[last.req.oid].invoice # None
    /\ "pay_url" \in DOMAIN orders[last.req.oid].invoice

\* C12: every buy intent for a catalog product, also one handled at the same
\* clock instant as another, creates a new order: pending, of the buyer, with
\* the product's catalog price, under an order_id no earlier order has.
C12_BuyCreatesFreshOrder ==
    [][/\ last'.req.op = "buy"
       /\ last'.req.pid \in PACKS
       => \E o \in DOMAIN orders' \ DOMAIN orders :
             /\ orders'[o].status = "pending"
             /\ orders'[o].user_id = last'.req.by
             /\ orders'[o].product_id = last'.req.pid
             /\ orders'[o].price = PRICES[last'.req.pid]]_vars

\* C13: the commit of a notification that reports no payment leaves the
\* order's status, paid_at and tx_info as they are and, of an invoice stored
\* on the order, changes nothing but the status field: every other field
\* (id, pay_url, ...) is still there with its value.
C13_UnpaidNotificationKeepsInvoice ==
    [][\A t \in Threads :
          /\ last'.t = t
          /\ thr[t].pc = "invoice_commit"
          /\ thr[t].req.op = "notify"
          => /\ orders'[thr[t].oid].status = orders[thr[t].oid].status
             /\ orders'[thr[t].oid].paid_at = orders[thr[t].oid].paid_at
             /\ orders'[thr[t].oid].tx_info = orders[thr[t].oid].tx_info
             /\ orders[thr[t].oid].invoice # None =>
                   \A k \in DOMAIN orders[thr[t].oid].invoice \ {"status"} :
                      /\ k \in DOMAIN orders'[thr[t].oid].invoice
                      /\ orders'[thr[t].oid].invoice[k] = orders[thr[t].oid].invoice[k]]_vars

\* C14: a notification that passes the signature test, names an existing
\* order and reports finished, paid, success or confirmed reaches
\* mark_order_paid_db whatever amount it reports (an amount below 99% of the
\* price included), and the commit on an order loaded as pending or invoiced
\* leaves it paid, with paid_at stamped and the notification as tx_info.
C14_PaidNotificationConfirms ==
    [][\A t \in Threads :
          /\ (/\ last'.t = t
              /\ thr[t] = Idle
              /\ last'.req.op = "notify"
              /\ ~SignatureRejected(last'.req.sig, last'.req.data)
              /\ ExtractOrderId(last'.req.data) \in DOMAIN orders
              /\ Lower(ExtractStatus(last'.req.data))
                    \in {"finished", "paid", "success", "confirmed"}
              => /\ thr'[t].pc = "mark_query"
                 /\ thr'[t].oid = ExtractOrderId(last'.req.data)
                 /\ thr'[t].tx = last'.req.data)
          /\ (/\ last'.t = t
              /\ thr[t].pc = "mark_query"
              /\ thr[t].req.op = "notify"
              /\ thr[t].oid \in DOMAIN orders
              => thr'[t].pc = "mark_commit")
          /\ (/\ last'.t = t
              /\ thr[t].pc = "mark_commit"
              /\ thr[t].req.op = "notify"
              /\ thr[t].loaded.status \in {"pending", "invoiced"}
              => /\ orders'[thr[t].oid].status = "paid"
                 /\ orders'[thr[t].oid].paid_at # NoTime
                 /\ orders'[thr[t].oid].tx_info = thr[t].req.data
                 /\ last'.reply = "ok")]_vars

\* C14 witness: a notification with status confirmed and an amount below 99%
\* of the price has just been committed on an order that holds an invoice:
\* the order is paid, stamped, and records the notification.
C14_Witness ==
    /\ last.req.op = "notify"
    /\ "sent" \in DOMAIN last
    /\ last.req.data.status = "confirmed"
    /\ UnderPaid(PayAmount(last.req.data), orders[last.req.data.order_id])
    /\ orders[last.req.data.order_id].status = "paid"
    /\ orders[last.req.data.order_id].paid_at # NoTime
    /\ orders[last.req.data.order_id].tx_info = last.req.data
    /\ orders[last.req.data.order_id].invoice # None

\* C15: when the commit of mark_order_paid_db makes an order paid and the
\* delivery that follows fails (an error answer, no answer, or an exception),
\* the order is left paid with paid_at and tx_info set, and the request ends
\* with its answer of success.
C15_DeliveryFailureKeepsPaid ==
    [][\A t \in Threads :
          /\ last'.t = t
          /\ thr[t].pc = "mark_commit"
          /\ thr[t].loaded.status # "paid"
          /\ ~last'.sent.ok
          => /\ orders'[thr[t].oid].status = "paid"
             /\ orders'[thr[t].oid].paid_at # NoTime
             /\ "null" \notin DOMAIN orders'[thr[t].oid].tx_info
             /\ last'.reply = MarkReply(thr[t].req)
             /\ thr'[t] = Idle]_vars

\* C15 witness: a pending order has just been made paid by a confirmation
\* whose delivery raised an exception: it is paid, stamped, and not delivered.
C15_Witness ==
    /\ "sent" \in DOMAIN last
    /\ last.transport.resp = "raise"
    /\ ~last.sent.ok
    /\ last.reply = "marked as paid (simulated)"
    /\ orders[last.req.oid].status = "paid"
    /\ orders[last.req.oid].paid_at # NoTime
    /\ delivered[last.req.oid] = 1
    /\ lost[last.req.oid] = 1

\* C16: a delivery whose send by reference failed, for whatever reason, went
\* on to the fetch-and-reupload mode, and when that failed too, to the text
\* message with the link.
C16_DeliveryFallsBackInOrder ==
    ("sent" \in DOMAIN last /\ last.transport.resp # "ok") =>
        /\ Len(last.sent.tried) >= 2
        /\ last.sent.tried[2] = "reupload"
        /\ (last.transport.fetch # "ok" \/ last.transport.upload # "ok") =>
              /\ Len(last.sent.tried) = 3
              /\ last.sent.tried[3] = "text"

\* C17: with no provider key, or when the provider call fails, the invoice
\* that issue_invoice returns is a placeholder: it has an id, the pay_url of
\* this system's own pay page for the order, status waiting and the order's
\* price and currency; and the commit stores exactly that invoice on the
\* order (no other request having written the order's invoice since this one
\* loaded the row).
C17_PlaceholderInvoiceStored ==
    [][\A t \in Threads :
          /\ (/\ last'.t = t
              /\ thr[t] = Idle
              /\ last'.req.op \in {"pay_now", "retry"}
              /\ last'.req.oid \in DOMAIN orders
              => /\ thr'[t].pc = "invoice_query"
                 /\ ~apiKey => thr'[t].fallback
                 /\ thr'[t].fallback =>
                       /\ "id" \in DOMAIN thr'[t].invoice
                       /\ thr'[t].invoice.pay_url = PayUrl(last'.req.oid)
                       /\ thr'[t].invoice.status = "waiting"
                       /\ thr'[t].invoice.price_amount = orders[last'.req.oid].price
                       /\ thr'[t].invoice.price_currency = orders[last'.req.oid].currency)
          /\ (/\ last'.t = t
              /\ thr[t].pc = "invoice_query"
              /\ thr[t].req.op \in {"pay_now", "retry"}
              => /\ thr'[t].pc = "invoice_commit"
                 /\ thr'[t].invoice = thr[t].invoice)
          /\ (/\ last'.t = t
              /\ thr[t].pc = "invoice_commit"
              /\ thr[t].req.op \in {"pay_now", "retry"}
              /\ thr[t].fallback
              /\ orders[thr[t].oid].invoice = thr[t].loaded.invoice
              => orders'[thr[t].oid].invoice = thr[t].invoice)]_vars

\* C17 witness: with a provider key configured, a pay_now whose provider call
\* failed has just ended, and the order holds the fallback placeholder.
C17_Witness ==
    /\ apiKey
    /\ last.req.op = "pay_now"
    /\ last.reply = "Invoice created."
    /\ orders[last.req.oid].invoice =
          FakeInvoice("fallback-inv-", orders[last.req.oid])
    /\ orders[last.req.oid].invoice.pay_url = PayUrl(last.req.oid)

\* C18: no step of any operation changes the order_id, buyer, product, price
\* or currency of an existing order.
C18_IdentityColumnsImmutable ==
    [][\A o \in DOMAIN orders :
          /\ o \in DOMAIN orders'
          /\ orders'[o].order_id = orders[o].order_id
          /\ orders'[o].user_id = orders[o].user_id
          /\ orders'[o].product_id = orders[o].product_id
          /\ orders'[o].price = orders[o].price
          /\ orders'[o].currency = orders[o].currency]_vars

\* C18 witness: the order created in the earlier run has since been invoiced
\* and paid, and still has the columns it was created with.
C18_Witness ==
    /\ generate_order_id(EarlierMs) \in DOMAIN orders
    /\ orders[generate_order_id(EarlierMs)].invoice # None
    /\ orders[generate_order_id(EarlierMs)].status = "paid"
    /\ orders[generate_order_id(EarlierMs)].paid_at # NoTime
    /\ orders[generate_order_id(EarlierMs)].order_id = generate_order_id(EarlierMs)
    /\ orders[generate_order_id(EarlierMs)].user_id = 41
    /\ orders[generate_order_id(EarlierMs)].product_id = "face_pack"
    /\ orders[generate_order_id(EarlierMs)].price = PRICES.face_pack
    /\ orders[generate_order_id(EarlierMs)].currency = "USDT"

\* C19: a check_paid by the buyer on an order that is paid and of which no
\* delivery has reached the buyer goes through mark_order_paid_db again, which
\* makes a new delivery attempt for the order.
C19_CheckPaidRedelivers ==
    [][\A t \in Threads :
          /\ (/\ last'.t = t
              /\ thr[t] = Idle
              /\ StepOn("check_paid")
              /\ last'.req.by = orders[last'.req.oid].user_id
              /\ orders[last'.req.oid].status = "paid"
              /\ lost[last'.req.oid] = delivered[last'.req.oid]
              => /\ thr'[t].pc = "mark_query"
                 /\ thr'[t].oid = last'.req.oid)
          /\ (/\ last'.t = t
              /\ thr[t].pc = "mark_query"
              /\ thr[t].req.op = "check_paid"
              => thr'[t].pc = "mark_commit")
          /\ (/\ last'.t = t
              /\ thr[t].pc = "mark_commit"
              /\ thr[t].req.op = "check_paid"
              => /\ delivered'[thr[t].oid] = delivered[thr[t].oid] + 1
                 /\ last'.sent.tried[1] = "reference")]_vars

\* C19 witness: an order was paid and its delivery failed; the buyer's
\* check_paid has just delivered it at the second attempt.
C19_Witness ==
    /\ last.req.op = "check_paid"
    /\ "sent" \in DOMAIN last
    /\ last.req.by = orders[last.req.oid].user_id
    /\ last.sent.ok
    /\ orders[last.req.oid].status = "paid"
    /\ delivered[last.req.oid] = 2
    /\ lost[last.req.oid] = 1

\* C20: with a provider key configured, the simulate-payment request changes
\* no order.
C20_SimulateOnlyWithoutProvider ==
    [][apiKey /\ last'.req.op = "pay_simulate" => orders' = orders]_vars

\* C21: a callback with an unrecognized action, or a buy, cancel, pay_now,
\* retry or check_paid whose argument names no product or order, is answered
\* with an unknown-action or not-found message and leaves the orders as they
\* are.
C21_UnknownCallbackRejected ==
    [][(\/ last'.req.op = "callback"
        \/ (last'.req.op = "buy" /\ last'.req.pid \notin DOMAIN PRICES)
        \/ (/\ last'.req.op \in {"cancel", "pay_now", "retry", "check_paid"}
            /\ last'.req.oid \notin DOMAIN orders))
       => /\ last'.reply \in {"unknown action", "Product not found.",
                               "Order not found."}
          /\ orders' = orders
          /\ delivered' = delivered]_vars

\* C22: the commit of an issue_invoice call that writes the invoice column
\* leaves on the order exactly the invoice that call produced, whatever was
\* stored before and whatever other calls are under way; a call that has
\* nothing to write (its invoice is the one it loaded) leaves the stored
\* invoice as the last writer left it.
C22_LatestInvoiceWins ==
    [][\A t \in Threads :
          /\ last'.t = t
          /\ thr[t].pc = "invoice_commit"
          /\ thr[t].req.op \in {"pay_now", "retry"}
          => IF thr[t].invoice # thr[t].loaded.invoice
             THEN orders'[thr[t].oid].invoice = thr[t].invoice
             ELSE orders'[thr[t].oid].invoice = orders[thr[t].oid].invoice]_vars

\* C22 witness: a retry has just stored the fallback placeholder over an
\* invoice of the provider: nothing of the provider's invoice remains.
C22_Witness ==
    /\ last.req.op = "retry"
    /\ "over" \in DOMAIN last
    /\ last.over # None
    /\ "invoice_url" \in DOMAIN last.over
    /\ orders[last.req.oid].invoice =
          FakeInvoice("fallback-inv-", orders[last.req.oid])
    /\ "invoice_url" \notin DOMAIN orders[last.req.oid].invoice

\* C23: in every state, an order has paid_at set exactly when its status is
\* paid.
C23_PaidAtIffPaid ==
    \A o \in DOMAIN orders :
        orders[o].paid_at # NoTime <=> orders[o].status = "paid"

C25_OrdersOnlyCreatedByBuy ==
    [][/\ DOMAIN orders \subseteq DOMAIN orders'
       /\ DOMAIN orders' # DOMAIN orders =>
             /\ last'.req.op = "buy"
             /\ last'.req.pid \in DOMAIN PRICES
             /\ Cardinality(DOMAIN orders') = Cardinality(DOMAIN orders) + 1
       /\ (/\ last'.req.op \in {"cancel", "pay_now", "retry", "check_paid",
                                  "pay_simulate"}
           /\ last'.req.oid \notin DOMAIN orders) => orders' = orders
       /\ (/\ last'.req.op = "notify"
           /\ ExtractOrderId(last'.req.data) \notin DOMAIN orders)
             => orders' = orders]_vars

\* C25 witness: a notification of a payment naming an unknown order has just
\* gone through mark_order_paid_db and been answered, and the table holds
\* exactly the orders the buys created (or the earlier run left).
C25_Witness ==
    /\ last.req.op = "notify"
    /\ last.reply = "ok"
    /\ last.req.data = [order_id |-> UnknownOrder, status |-> "finished"]
    /\ UnknownOrder \notin DOMAIN orders
    /\ Cardinality(DOMAIN orders) = 2
    /\ \A o \in DOMAIN orders : delivered[o] = 0 /\ orders[o].status = "pending"

====
